---- MODULE Spec2Model ----
(***************************************************************************)
(* Jupyter-bridge (src/server/jupyter_bridge.py): the per-channel          *)
(* rendezvous relay.  One channel with its two redis hashes                *)
(* (<channel>:request and <channel>:reply), the day's statistics hash and  *)
(* the Flask handlers, each running on its own thread.  Every redis call   *)
(* of a handler is one atomic step; what a handler does between two redis  *)
(* calls is local to its thread and is folded into the step of the call    *)
(* that precedes it.                                                       *)
(***************************************************************************)
EXTENDS Integers, Sequences, FiniteSets, TLC

(***************************************************************************)
(* Bounds of the model.                                                    *)
(***************************************************************************)
\* handler threads that may run at the same time
NumWorkers == 2
\* HTTP calls started in one behaviour of Spec
MaxCalls == 3
\* HTTP calls started in one behaviour of SpecSeq (one call at a time)
MaxSeqCalls == 5
\* longest payload posted
MaxPayloadLen == 2
\* calls of _get_transaction_id made in one behaviour of SpecTx
MaxTxCalls == 4

(***************************************************************************)
(* Program constants.  The four os.environ settings are given the values   *)
(* JUPYTER_DEQUEUE_TIMEOUT_SECS=3, JUPYTER_FAST_BRIDGE_POLL_SECS=1,        *)
(* JUPYTER_SLOW_BRIDGE_POLL_SECS=2, JUPYTER_ALLOWED_FAST_DEQUEUE_POLLS=2.  *)
(***************************************************************************)
DEQUEUE_TIMEOUT_SECS == 3
FAST_DEQUEUE_POLLING_SECS == 1
SLOW_DEQUEUE_POLLING_SECS == 2
ALLOWED_FAST_DEQUEUE_POLLS == 2
EXPIRE_SECS == 86400
PAD_LENGTH == 1500

DEQUEUE_BUSY_STATUS == "busy"
DEQUEUE_IDLE_STATUS == "idle"

HTTP_OK == 200
HTTP_SYS_ERR == 500
HTTP_TIMEOUT == 408
HTTP_TOO_MANY == 429

REPLY == "reply"
REQUEST == "request"
Operations == {REQUEST, REPLY}

\* the bytes payloads are made of, and the ASCII space of the padding
PayloadBytes == {7}
SPACE == 32

Workers == 1 .. NumWorkers
Payloads == UNION {[1 .. n -> PayloadBytes] : n \in 0 .. MaxPayloadLen}

(***************************************************************************)
(* Python's None and a present value: <<>> and <<v>>.                      *)
(***************************************************************************)
None == <<>>
Some(v) == <<v>>
Val(o) == o[1]

\* Python truthiness of an optional bytes value: None and b'' are false
Truthy(o) == o # None /\ Len(Val(o)) > 0

(***************************************************************************)
(* The redis hash of a slot: every field is None (absent) or Some(bytes).  *)
(* redis removes a hash that has no field left, and its TTL with it.       *)
(* ttl follows the TTL command: -2 no such key, -1 no expiry, else seconds.*)
(***************************************************************************)
Fields == {"message", "posted_time", "pickup_time", "dequeue_busy", "reply_fast_polls_left"}
NoKey == [fields |-> [f \in Fields |-> None], ttl |-> -2]

Exists(h) == \E f \in Fields : h.fields[f] # None

HGet(h, f) == h.fields[f]

HMSet(h, kv) ==
  [fields |-> [f \in Fields |-> IF f \in DOMAIN kv THEN Some(kv[f]) ELSE h.fields[f]],
   ttl |-> IF Exists(h) THEN h.ttl ELSE -1]

\* the reply of HDEL: the number of fields removed
HDelCount(h, f) == IF h.fields[f] # None THEN 1 ELSE 0

HDel(h, f) ==
  LET rest == [g \in Fields |-> IF g = f THEN None ELSE h.fields[g]]
  IN  IF \E g \in Fields : rest[g] # None THEN [h EXCEPT !.fields = rest] ELSE NoKey

\* the reply of EXPIRE: 1 when the key exists
ExpireReply(h) == IF Exists(h) THEN 1 ELSE 0

\* a variant: the TTL is not set
Expire_NotSet(h, secs) == h

Expire(h, secs) == IF Exists(h) THEN [h EXCEPT !.ttl = secs] ELSE h

(***************************************************************************)
(* redis stores an integer as its decimal text and int(...decode()) parses *)
(* it back.                                                                *)
(***************************************************************************)
RECURSIVE IntToBytes(_)
IntToBytes(n) == IF n < 10 THEN <<48 + n>> ELSE IntToBytes(n \div 10) \o <<48 + (n % 10)>>

RECURSIVE BytesToInt(_)
BytesToInt(s) ==
  IF Len(s) = 0 THEN 0
  ELSE 10 * BytesToInt(SubSeq(s, 1, Len(s) - 1)) + (s[Len(s)] - 48)

\* time.asctime(): the clock is not modelled, every reading is the one text
Asctime == "asctime"

(***************************************************************************)
(* State.                                                                  *)
(*   redis_db        the two slot hashes of the channel, by operation      *)
(*   stats           the day's statistics hash (an absent field reads 0)   *)
(*   transaction_id  the module's transaction counter                      *)
(*   wk              the handler threads: position and local variables     *)
(*   lastEnqueued    history: the payload of the latest enqueue write      *)
(*   awaiting        history: payloads written and not yet followed by a   *)
(*                   dequeue that took a payload from the slot             *)
(*   succeeded       history: enqueues answered 200, count and bytes       *)
(*   streak          history: the valid dequeue calls made on a slot since *)
(*                   its fast-poll counter was last absent or at its       *)
(*                   maximum, when all of them timed out; -1 otherwise     *)
(*   written         history: the number of enqueue writes made to a slot; *)
(*                   the n-th write is the message numbered n              *)
(*   delivered       history: the numbers of the messages of a slot that a *)
(*                   dequeue has returned with status 200                  *)
(*   acked           history: the enqueues of a slot answered 200, each    *)
(*                   as <<the number of its write, whether the write       *)
(*                   replaced a message that was in the slot>>             *)
(*   transaction_sem the value of the semaphore of _get_transaction_id     *)
(*   issued          history: the values _get_transaction_id has returned, *)
(*                   in the order of the returns                           *)
(***************************************************************************)
VARIABLES redis_db, stats, transaction_id, wk, lastEnqueued, awaiting, succeeded, streak,
          written, delivered, acked, transaction_sem, issued

vars == <<redis_db, stats, transaction_id, wk, lastEnqueued, awaiting, succeeded, streak,
          written, delivered, acked, transaction_sem, issued>>

store == <<redis_db, stats>>
history == <<lastEnqueued, awaiting, succeeded, streak, written, delivered, acked>>
\* the semaphore of _get_transaction_id and the record of its returns
semaphore == <<transaction_sem, issued>>

StatFields == {"count:request", "request", "count:reply", "reply"}

IdleWorker ==
  [pc |-> "idle", handler |-> "", operation |-> "", msg |-> <<>>, reset_first |-> FALSE,
   valid_reader |-> TRUE, message |-> None, fast_polls_left |-> 0,
   dequeue_polling_secs |-> 0, dequeue_timeout_secs_left |-> 0,
   exc |-> "", status |-> 0, body |-> <<>>,
   \* history: the interlock was set by this call; reads of the message made;
   \* the latest enqueue written to the slot when the message was read
   acquired |-> FALSE, polls |-> 0, source |-> None,
   \* history: the call has set the TTL of its slot; the number of its write
   \* and whether it replaced a message; it has deleted the reply message
   \* (queue_request) or made its sweep (dequeue); the writes made to the slot
   \* when it set the interlock and when it made its sweep; the number of the
   \* message it read
   refreshed |-> FALSE, write_no |-> 0, overwrote |-> FALSE, swept |-> FALSE,
   acquired_at |-> 0, swept_at |-> 0, read_write |-> 0,
   \* the startup scrub: the keys still to delete
   keys |-> <<>>,
   \* _get_transaction_id: the local transaction; history: the highest value
   \* returned when the call started (-1: none)
   transaction |-> 0, floor |-> -1]

Init ==
  /\ redis_db = [o \in Operations |-> NoKey]
  /\ stats = [f \in StatFields |-> 0]
  /\ transaction_id = 0
  /\ wk = [w \in Workers |-> IdleWorker]
  /\ lastEnqueued = [o \in Operations |-> None]
  /\ awaiting = [o \in Operations |-> {}]
  /\ succeeded = [f \in StatFields |-> 0]
  /\ streak = [o \in Operations |-> 0]
  /\ written = [o \in Operations |-> 0]
  /\ delivered = [o \in Operations |-> {}]
  /\ acked = [o \in Operations |-> {}]
  /\ transaction_sem = 1
  /\ issued = <<>>

\* the slot a handler thread works on
Slot(w) == redis_db[wk[w].operation]

(***************************************************************************)
(* Helpers of the module.                                                  *)
(***************************************************************************)
\* _del_message: HDEL of the message field; raises unless one field was removed
\* or the call is permissive
DelMessageRaises(h, permissive) == HDelCount(h, "message") # 1 /\ ~permissive

\* a variant: the message is blanked, not removed
DelMessage_Blank(h) == HMSet(h, [message |-> <<>>])

DelMessage(h) == HDel(h, "message")

\* _expire: EXPIRE of the key; raises unless redis answers 1
ExpireRaises(h) == ExpireReply(h) # 1

\* a variant: the padding replaces the message
AddPadding_Overwrite(message) == [i \in 1 .. PAD_LENGTH |-> SPACE]

\* _add_padding: PAD_MESSAGE is True and the message is bytes
AddPadding(message) == message \o [i \in 1 .. PAD_LENGTH |-> SPACE]

\* a variant: the byte counter counts calls
StatsBytes_CountsCalls(s, operation, msg) ==
  [s EXCEPT ![operation] = @ + 1]

\* _update_stats: the two HINCRBY calls
StatsCount(s, operation, msg) ==
  [s EXCEPT !["count:" \o operation] = @ + 1]

StatsBytes(s, operation, msg) ==
  [s EXCEPT ![operation] = @ + Len(msg)]

\* a thread is free for a call: it has served none yet, or has returned the
\* Response of its last one (which its record still shows)
Free(w) == wk[w].pc \in {"idle", "done"}

\* a handler thread takes a step: its record becomes r
Step(w, r) == wk' = [wk EXCEPT ![w] = r]

(***************************************************************************)
(* The response of a handler.  Building the Response follows the last      *)
(* redis call of the handler and is part of that step; the thread then     *)
(* shows the response until it serves the next call.                      *)
(***************************************************************************)
Enqueuers == {"queue_request", "queue_reply"}
Dequeuers == {"dequeue_request", "dequeue_reply"}

\* the status of the Response a handler builds
ResponseStatus(r) ==
  IF r.exc # "" THEN HTTP_SYS_ERR
  ELSE IF r.handler \in Enqueuers THEN HTTP_OK
  ELSE IF ~r.valid_reader THEN HTTP_TOO_MANY
  ELSE IF r.message = None THEN HTTP_TIMEOUT
  ELSE HTTP_OK

\* the body of the Response a handler builds: _exception_message(e) is str(e)
ResponseBody(r) ==
  IF r.exc # "" THEN r.exc
  ELSE IF r.handler \in Dequeuers /\ r.valid_reader /\ r.message # None
       THEN AddPadding(Val(r.message))
  ELSE <<>>

\* the thread of a handler that has built its Response
Respond(r) ==
  [IdleWorker EXCEPT !.pc = "done", !.handler = r.handler, !.operation = r.operation,
                     !.msg = r.msg, !.status = ResponseStatus(r), !.body = ResponseBody(r)]

\* raise Exception(text): to the except clause of the handler, or first to the
\* finally clause at pc
Raise(w, text) == Respond([wk[w] EXCEPT !.exc = text])

RaiseTo(w, text, pc) == [wk[w] EXCEPT !.exc = text, !.pc = pc]

(***************************************************************************)
(* queue_request and queue_reply.                                          *)
(***************************************************************************)
\* queue_request up to request.get_data(): the channel is given and the
\* content type is application/json
QueueRequestBegin(w, msg, limit) ==
  /\ Free(w)
  /\ transaction_id < limit
  /\ transaction_id' = transaction_id + 1
  /\ Step(w, [IdleWorker EXCEPT !.pc = "qr_get_reply", !.handler = "queue_request",
                                !.operation = REQUEST, !.msg = msg])
  /\ UNCHANGED <<semaphore, store, history>>

\* last_reply = redis_db.hget(reply_key, MESSAGE); if last_reply:
QueueRequestGetReply(w) ==
  /\ wk[w].pc = "qr_get_reply"
  /\ Step(w, [wk[w] EXCEPT !.pc = IF Truthy(HGet(redis_db[REPLY], "message"))
                                  THEN "qr_del_reply" ELSE "enq_read"])
  /\ UNCHANGED <<semaphore, store, transaction_id, history>>

\* a variant: the reply key is deleted, not its message field
QueueRequestDelReply_WholeKey(w) ==
  /\ wk[w].pc = "qr_del_reply"
  /\ IF ~Exists(redis_db[REPLY])
     THEN /\ Step(w, Raise(w, "redis failed deleting"))
          /\ UNCHANGED redis_db
     ELSE /\ Step(w, [wk[w] EXCEPT !.pc = "enq_read", !.swept = TRUE])
          /\ redis_db' = [redis_db EXCEPT ![REPLY] = NoKey]
  /\ UNCHANGED <<semaphore, stats, transaction_id, history>>

\* _del_message(reply_key)
QueueRequestDelReply(w) ==
  /\ wk[w].pc = "qr_del_reply"
  /\ IF DelMessageRaises(redis_db[REPLY], FALSE)
     THEN /\ Step(w, Raise(w, "redis failed deleting"))
          /\ UNCHANGED redis_db
     ELSE /\ Step(w, [wk[w] EXCEPT !.pc = "enq_read", !.swept = TRUE])
          /\ redis_db' = [redis_db EXCEPT ![REPLY] = DelMessage(@)]
  /\ UNCHANGED <<semaphore, stats, transaction_id, history>>

\* queue_reply up to request.get_data(): the channel is given and the content
\* type is text/plain
QueueReplyBegin(w, msg, limit) ==
  /\ Free(w)
  /\ transaction_id < limit
  /\ transaction_id' = transaction_id + 1
  /\ Step(w, [IdleWorker EXCEPT !.pc = "enq_read", !.handler = "queue_reply",
                                !.operation = REPLY, !.msg = msg])
  /\ UNCHANGED <<semaphore, store, history>>

\* a call without its channel parameter, or a post of the wrong content type
RejectedCall(w, handler, limit) ==
  /\ Free(w)
  /\ transaction_id < limit
  /\ transaction_id' = transaction_id + 1
  /\ Step(w, Respond([IdleWorker EXCEPT !.handler = handler,
                                     !.exc = "Channel is missing or payload of the wrong type"]))
  /\ UNCHANGED <<semaphore, store, history>>

\* a variant: an empty message counts as no message
EnqueueRead_Truthy(w) ==
  /\ wk[w].pc = "enq_read"
  /\ Step(w, IF ~Truthy(HGet(Slot(w), "message"))
             THEN [wk[w] EXCEPT !.pc = "enq_set"]
             ELSE Raise(w, "Channel contains unprocessed message"))
  /\ UNCHANGED <<semaphore, store, transaction_id, history>>

\* _enqueue: cur_value = redis_db.hgetall(key) and the test of MESSAGE in it
EnqueueRead(w) ==
  /\ wk[w].pc = "enq_read"
  /\ Step(w, IF HGet(Slot(w), "message") = None
             THEN [wk[w] EXCEPT !.pc = "enq_set"]
             ELSE Raise(w, "Channel contains unprocessed message"))
  /\ UNCHANGED <<semaphore, store, transaction_id, history>>

\* _set_key_value(key, {MESSAGE: msg, PICKUP_TIME: '', POSTED_TIME: time.asctime()})
EnqueueSet(w) ==
  /\ wk[w].pc = "enq_set"
  /\ redis_db' = [redis_db EXCEPT ![wk[w].operation] =
                   HMSet(@, [message |-> wk[w].msg, pickup_time |-> "",
                             posted_time |-> Asctime])]
  /\ Step(w, [wk[w] EXCEPT !.pc = "enq_expire",
                           !.write_no = written[wk[w].operation] + 1,
                           !.overwrote = HGet(Slot(w), "message") # None])
  /\ lastEnqueued' = [lastEnqueued EXCEPT ![wk[w].operation] = Some(wk[w].msg)]
  /\ awaiting' = [awaiting EXCEPT ![wk[w].operation] = @ \cup {wk[w].msg}]
  /\ written' = [written EXCEPT ![wk[w].operation] = @ + 1]
  /\ UNCHANGED <<semaphore, stats, transaction_id, succeeded, streak, delivered, acked>>

\* _expire(key)
EnqueueExpire(w) ==
  /\ wk[w].pc = "enq_expire"
  /\ IF ExpireRaises(Slot(w))
     THEN /\ Step(w, Raise(w, "redis failed expiring"))
          /\ UNCHANGED redis_db
     ELSE /\ Step(w, [wk[w] EXCEPT !.pc = "enq_stats_count", !.refreshed = TRUE])
          /\ redis_db' = [redis_db EXCEPT ![wk[w].operation] = Expire(@, EXPIRE_SECS)]
  /\ UNCHANGED <<semaphore, stats, transaction_id, history>>

\* redis_db.hincrby(stat_key, f'{COUNT}:{operation}', 1)
UpdateStatsCount(w) ==
  /\ wk[w].pc = "enq_stats_count"
  /\ stats' = StatsCount(stats, wk[w].operation, wk[w].msg)
  /\ Step(w, [wk[w] EXCEPT !.pc = "enq_stats_bytes"])
  /\ UNCHANGED <<semaphore, redis_db, transaction_id, history>>

\* redis_db.hincrby(stat_key, operation, len(msg)), and the return of status 200
UpdateStatsBytes(w) ==
  /\ wk[w].pc = "enq_stats_bytes"
  /\ stats' = StatsBytes(stats, wk[w].operation, wk[w].msg)
  /\ Step(w, Respond(wk[w]))
  /\ succeeded' = [succeeded EXCEPT !["count:" \o wk[w].operation] = @ + 1,
                                    ![wk[w].operation] = @ + Len(wk[w].msg)]
  /\ acked' = [acked EXCEPT ![wk[w].operation] = @ \cup {<<wk[w].write_no, wk[w].overwrote>>}]
  /\ UNCHANGED <<semaphore, redis_db, transaction_id, lastEnqueued, awaiting, streak,
                 written, delivered>>

(***************************************************************************)
(* dequeue_request and dequeue_reply.                                      *)
(***************************************************************************)
\* dequeue_request / dequeue_reply up to the call of _dequeue; reset is
\* 'reset' in request.args
DequeueBegin(w, operation, reset, limit) ==
  /\ Free(w)
  /\ transaction_id < limit
  /\ transaction_id' = transaction_id + 1
  /\ Step(w, [IdleWorker EXCEPT !.pc = "deq_read_busy",
                                !.handler = "dequeue_" \o operation,
                                !.operation = operation, !.reset_first = reset])
  /\ UNCHANGED <<semaphore, store, history>>

\* dequeue_busy = redis_db.hget(key, DEQUEUE_BUSY) or DEQUEUE_IDLE_STATUS, and
\* the test for a redundant reader
DequeueReadBusy(w) ==
  /\ wk[w].pc = "deq_read_busy"
  /\ LET got == HGet(Slot(w), "dequeue_busy")
         \* the field is written as b'busy' or b'idle' only, never as b''
         dequeue_busy == IF got # None THEN Val(got) ELSE DEQUEUE_IDLE_STATUS
     IN  Step(w, IF dequeue_busy = DEQUEUE_BUSY_STATUS
                 THEN [wk[w] EXCEPT !.valid_reader = FALSE, !.pc = "deq_finally"]
                 ELSE [wk[w] EXCEPT !.pc = "deq_set_busy"])
  /\ UNCHANGED <<semaphore, store, transaction_id, history>>

\* _set_key_value(key, {DEQUEUE_BUSY: DEQUEUE_BUSY_STATUS})
DequeueSetBusy(w) ==
  /\ wk[w].pc = "deq_set_busy"
  /\ redis_db' = [redis_db EXCEPT ![wk[w].operation] =
                   HMSet(@, [dequeue_busy |-> DEQUEUE_BUSY_STATUS])]
  /\ Step(w, [wk[w] EXCEPT !.acquired = TRUE,
                           !.acquired_at = written[wk[w].operation],
                           !.pc = IF wk[w].reset_first THEN "deq_reset" ELSE "deq_clear_pickup"])
  /\ UNCHANGED <<semaphore, stats, transaction_id, history>>

\* a variant: the sweep deletes nothing
DequeueReset_Skip(w) ==
  /\ wk[w].pc = "deq_reset"
  /\ Step(w, [wk[w] EXCEPT !.pc = "deq_clear_pickup", !.swept = TRUE,
                           !.swept_at = written[wk[w].operation]])
  /\ UNCHANGED <<semaphore, store, transaction_id, history>>

\* if reset_first: _del_message(key, permissive=True)
DequeueReset(w) ==
  /\ wk[w].pc = "deq_reset"
  /\ IF DelMessageRaises(Slot(w), TRUE)
     THEN /\ Step(w, RaiseTo(w, "redis failed deleting", "deq_finally"))
          /\ UNCHANGED redis_db
     ELSE /\ Step(w, [wk[w] EXCEPT !.pc = "deq_clear_pickup", !.swept = TRUE,
                                   !.swept_at = written[wk[w].operation]])
          /\ redis_db' = [redis_db EXCEPT ![wk[w].operation] = DelMessage(@)]
  /\ UNCHANGED <<semaphore, stats, transaction_id, history>>

\* _set_key_value(key, {PICKUP_TIME: ''})
DequeueClearPickup(w) ==
  /\ wk[w].pc = "deq_clear_pickup"
  /\ redis_db' = [redis_db EXCEPT ![wk[w].operation] = HMSet(@, [pickup_time |-> ""])]
  /\ Step(w, [wk[w] EXCEPT !.pc = "deq_expire"])
  /\ UNCHANGED <<semaphore, stats, transaction_id, history>>

\* _expire(key)
DequeueExpire(w) ==
  /\ wk[w].pc = "deq_expire"
  /\ IF ExpireRaises(Slot(w))
     THEN /\ Step(w, RaiseTo(w, "redis failed expiring", "deq_finally"))
          /\ UNCHANGED redis_db
     ELSE /\ Step(w, [wk[w] EXCEPT !.pc = "deq_get_fast", !.refreshed = TRUE])
          /\ redis_db' = [redis_db EXCEPT ![wk[w].operation] = Expire(@, EXPIRE_SECS)]
  /\ UNCHANGED <<semaphore, stats, transaction_id, history>>

\* the fast polls left as read from the slot: ALLOWED_FAST_DEQUEUE_POLLS when
\* the field is absent
FastPollsLeft(h) ==
  IF HGet(h, "reply_fast_polls_left") = None
  THEN ALLOWED_FAST_DEQUEUE_POLLS
  ELSE BytesToInt(Val(HGet(h, "reply_fast_polls_left")))

\* a variant: the last fast poll is never used up
PollingSecs_AlwaysFast(fast_polls_left) ==
  IF fast_polls_left >= 0 THEN FAST_DEQUEUE_POLLING_SECS ELSE SLOW_DEQUEUE_POLLING_SECS

\* the polling interval chosen for a count of fast polls left
PollingSecs(fast_polls_left) ==
  IF fast_polls_left > 0 THEN FAST_DEQUEUE_POLLING_SECS ELSE SLOW_DEQUEUE_POLLING_SECS

\* fast_polls_left = redis_db.hget(key, REPLY_FAST_POLLS_LEFT) and the choice
\* of the polling interval
DequeueGetFastPolls(w) ==
  /\ wk[w].pc = "deq_get_fast"
  /\ LET fast_polls_left == FastPollsLeft(Slot(w))
     IN  Step(w, IF fast_polls_left > 0
                 THEN [wk[w] EXCEPT !.fast_polls_left = fast_polls_left - 1,
                                    !.dequeue_polling_secs = PollingSecs(fast_polls_left),
                                    !.pc = "deq_set_fast"]
                 ELSE [wk[w] EXCEPT !.fast_polls_left = fast_polls_left,
                                    !.dequeue_polling_secs = PollingSecs(fast_polls_left),
                                    !.pc = "deq_first_read"])
  /\ UNCHANGED <<semaphore, store, transaction_id, history>>

\* _set_key_value(key, {REPLY_FAST_POLLS_LEFT: fast_polls_left})
DequeueSetFastPolls(w) ==
  /\ wk[w].pc = "deq_set_fast"
  /\ redis_db' = [redis_db EXCEPT ![wk[w].operation] =
                   HMSet(@, [reply_fast_polls_left |-> IntToBytes(wk[w].fast_polls_left)])]
  /\ Step(w, [wk[w] EXCEPT !.pc = "deq_first_read"])
  /\ UNCHANGED <<semaphore, stats, transaction_id, history>>

\* a variant: the loop does not look at the time left
KeepPolling_NoTimeout(message, dequeue_timeout_secs_left) == message = None

\* the polling loop goes on: while message is None and dequeue_timeout_secs_left > 0
KeepPolling(message, dequeue_timeout_secs_left) ==
  message = None /\ dequeue_timeout_secs_left > 0

\* where a read of the message leads: another sleep and read, the delete of
\* the message read (if message:), or the end of the call
AfterRead(message, dequeue_timeout_secs_left) ==
  IF KeepPolling(message, dequeue_timeout_secs_left) THEN "deq_poll"
  ELSE IF Truthy(message) THEN "deq_del_message"
  ELSE "deq_finally"

\* the payloads still awaited once a reader has taken `message` from the slot
Taken(w, message) ==
  IF message # None /\ ~Truthy(message)
  THEN [awaiting EXCEPT ![wk[w].operation] = {}]
  ELSE awaiting

\* the latest enqueue written to the slot, noted when a message is read
Source(w, message) == IF message = None THEN None ELSE lastEnqueued[wk[w].operation]

\* the number of the message read: the message of a slot is that of the latest
\* write made to it
ReadWrite(w, message) == IF message = None THEN 0 ELSE written[wk[w].operation]

\* message = redis_db.hget(key, MESSAGE); dequeue_timeout_secs_left = DEQUEUE_TIMEOUT_SECS
DequeueFirstRead(w) ==
  /\ wk[w].pc = "deq_first_read"
  /\ LET message == HGet(Slot(w), "message")
     IN  /\ Step(w, [wk[w] EXCEPT !.message = message,
                                  !.dequeue_timeout_secs_left = DEQUEUE_TIMEOUT_SECS,
                                  !.polls = @ + 1,
                                  !.source = Source(w, message),
                                  !.read_write = ReadWrite(w, message),
                                  !.pc = AfterRead(message, DEQUEUE_TIMEOUT_SECS)])
         /\ awaiting' = Taken(w, message)
  /\ UNCHANGED <<semaphore, store, transaction_id, lastEnqueued, succeeded, streak,
                 written, delivered, acked>>

\* time.sleep(dequeue_polling_secs); dequeue_timeout_secs_left -= dequeue_polling_secs;
\* message = redis_db.hget(key, MESSAGE)
DequeuePoll(w) ==
  /\ wk[w].pc = "deq_poll"
  /\ LET message == HGet(Slot(w), "message")
         left == wk[w].dequeue_timeout_secs_left - wk[w].dequeue_polling_secs
     IN  /\ Step(w, [wk[w] EXCEPT !.message = message,
                                  !.dequeue_timeout_secs_left = left,
                                  !.polls = @ + 1,
                                  !.source = Source(w, message),
                                  !.read_write = ReadWrite(w, message),
                                  !.pc = AfterRead(message, left)])
         /\ awaiting' = Taken(w, message)
  /\ UNCHANGED <<semaphore, store, transaction_id, lastEnqueued, succeeded, streak,
                 written, delivered, acked>>

\* if message: _del_message(key)
DequeueDelMessage(w) ==
  /\ wk[w].pc = "deq_del_message"
  /\ IF DelMessageRaises(Slot(w), FALSE)
     THEN /\ Step(w, RaiseTo(w, "redis failed deleting", "deq_finally"))
          /\ UNCHANGED <<redis_db, awaiting>>
     ELSE /\ Step(w, [wk[w] EXCEPT !.pc = "deq_set_pickup"])
          /\ redis_db' = [redis_db EXCEPT ![wk[w].operation] = DelMessage(@)]
          /\ awaiting' = [awaiting EXCEPT ![wk[w].operation] = {}]
  /\ UNCHANGED <<semaphore, stats, transaction_id, lastEnqueued, succeeded, streak,
                 written, delivered, acked>>

\* _set_key_value(key, {PICKUP_TIME: time.asctime(),
\*                      REPLY_FAST_POLLS_LEFT: ALLOWED_FAST_DEQUEUE_POLLS})
DequeueSetPickup(w) ==
  /\ wk[w].pc = "deq_set_pickup"
  /\ redis_db' = [redis_db EXCEPT ![wk[w].operation] =
                   HMSet(@, [pickup_time |-> Asctime,
                             reply_fast_polls_left |-> IntToBytes(ALLOWED_FAST_DEQUEUE_POLLS)])]
  /\ Step(w, [wk[w] EXCEPT !.pc = "deq_finally"])
  /\ streak' = [streak EXCEPT ![wk[w].operation] = 0]
  /\ UNCHANGED <<semaphore, stats, transaction_id, lastEnqueued, awaiting, succeeded,
                 written, delivered, acked>>

\* a variant: the interlock is released on the way out of the try block only
ReleaseInterlock_OnSuccessOnly(w) ==
  IF wk[w].valid_reader /\ wk[w].exc = ""
  THEN [redis_db EXCEPT ![wk[w].operation] = HMSet(@, [dequeue_busy |-> DEQUEUE_IDLE_STATUS])]
  ELSE redis_db

\* a variant: the interlock is released by a redundant reader too
ReleaseInterlock_Always(w) ==
  [redis_db EXCEPT ![wk[w].operation] = HMSet(@, [dequeue_busy |-> DEQUEUE_IDLE_STATUS])]

\* finally: if valid_reader: _set_key_value(key, {DEQUEUE_BUSY: DEQUEUE_IDLE_STATUS})
ReleaseInterlock(w) ==
  IF wk[w].valid_reader
  THEN [redis_db EXCEPT ![wk[w].operation] = HMSet(@, [dequeue_busy |-> DEQUEUE_IDLE_STATUS])]
  ELSE redis_db

\* the streak of timed-out calls once the call of thread w has returned
StreakAfter(w) ==
  LET r == wk[w]
      k == streak[r.operation]
  IN  IF ~r.valid_reader THEN k
      ELSE IF r.exc = "" /\ r.message = None THEN (IF k >= 0 THEN k + 1 ELSE -1)
      ELSE IF r.exc = "" /\ Truthy(r.message) THEN k
      ELSE -1

\* the messages of the slot returned once the call of thread w has returned
DeliveredAfter(w) ==
  IF ResponseStatus(wk[w]) = HTTP_OK
  THEN [delivered EXCEPT ![wk[w].operation] = @ \cup {wk[w].read_write}]
  ELSE delivered

DequeueFinally(w) ==
  /\ wk[w].pc = "deq_finally"
  /\ redis_db' = ReleaseInterlock(w)
  /\ Step(w, Respond(wk[w]))
  /\ streak' = [streak EXCEPT ![wk[w].operation] = StreakAfter(w)]
  /\ delivered' = DeliveredAfter(w)
  /\ UNCHANGED <<semaphore, stats, transaction_id, lastEnqueued, awaiting, succeeded,
                 written, acked>>

(***************************************************************************)
(* The startup scrub: the two loops the module runs when it is loaded,     *)
(* before it serves a call.  With one channel a pattern has at most one    *)
(* key, the slot of its operation.                                         *)
(***************************************************************************)
\* a variant: both loops list the reply keys
Keys_ReplyOnly(db, operation) == IF Exists(db[REPLY]) THEN <<REPLY>> ELSE <<>>

\* redis_db.keys(f'*:{operation}')
Keys(db, operation) == IF Exists(db[operation]) THEN <<operation>> ELSE <<>>

\* the loop over the keys of a pattern is done: on to the loop over the
\* request keys, or to the end of the startup
AfterScrubLoop(r) ==
  IF r.operation = REPLY
  THEN [r EXCEPT !.pc = "scrub_keys", !.operation = REQUEST, !.keys = <<>>]
  ELSE IdleWorker

\* for key in redis_db.keys(f'*:{REPLY}'), and then the same of REQUEST
ScrubKeys(w) ==
  /\ wk[w].pc = "scrub_keys"
  /\ LET keys == Keys(redis_db, wk[w].operation)
     IN  Step(w, IF keys = <<>> THEN AfterScrubLoop(wk[w])
                 ELSE [wk[w] EXCEPT !.pc = "scrub_del", !.keys = keys])
  /\ UNCHANGED <<semaphore, store, transaction_id, history>>

\* _del_key(key): redis_db.delete(key); what it answers is logged only
ScrubDelKey(w) ==
  /\ wk[w].pc = "scrub_del"
  /\ redis_db' = [redis_db EXCEPT ![Head(wk[w].keys)] = NoKey]
  /\ LET rest == Tail(wk[w].keys)
     IN  Step(w, IF rest = <<>> THEN AfterScrubLoop(wk[w])
                 ELSE [wk[w] EXCEPT !.keys = rest])
  /\ UNCHANGED <<semaphore, stats, transaction_id, history>>

\* what a prior server instance has left in a slot: nothing; the interlock of
\* a reader stopped before its _expire; the fields of a reader that got past
\* it; the fields of an enqueue, on either of these
Waited(h, status) ==
  Expire(HMSet(h, [dequeue_busy |-> status, pickup_time |-> ""]), EXPIRE_SECS)

Enqueued(h, msg) ==
  Expire(HMSet(h, [message |-> msg, pickup_time |-> "", posted_time |-> Asctime]), EXPIRE_SECS)

Leftovers ==
  LET waited == {Waited(NoKey, status) : status \in {DEQUEUE_BUSY_STATUS, DEQUEUE_IDLE_STATUS}}
  IN  {NoKey, HMSet(NoKey, [dequeue_busy |-> DEQUEUE_BUSY_STATUS])}
        \cup waited
        \cup {Enqueued(h, msg) : h \in {NoKey} \cup waited, msg \in Payloads}

\* the day record a prior instance has left: at most one enqueue counted for
\* each operation, with the bytes of its payload
PriorStats ==
  {s \in [StatFields -> 0 .. MaxPayloadLen] :
     \A o \in Operations : s["count:" \o o] <= 1 /\ s[o] <= s["count:" \o o] * MaxPayloadLen}

\* the module is loaded: redis holds what a prior instance left, and the
\* first thread is at the first loop of the scrub
InitScrub ==
  /\ redis_db \in [Operations -> Leftovers]
  /\ stats \in PriorStats
  /\ transaction_id = 0
  /\ wk = [w \in Workers |-> IF w = 1
                               THEN [IdleWorker EXCEPT !.pc = "scrub_keys", !.operation = REPLY]
                               ELSE IdleWorker]
  /\ lastEnqueued = [o \in Operations |-> HGet(redis_db[o], "message")]
  /\ awaiting = [o \in Operations |-> {}]
  /\ succeeded = stats
  /\ streak = [o \in Operations |-> 0]
  /\ written = [o \in Operations |-> 0]
  /\ delivered = [o \in Operations |-> {}]
  /\ acked = [o \in Operations |-> {}]
  /\ transaction_sem = 1
  /\ issued = <<>>

(***************************************************************************)
(* _get_transaction_id, the first call every handler makes, statement by   *)
(* statement.  (In the handlers above it is one step with the entry of the *)
(* handler.)                                                               *)
(***************************************************************************)
\* the highest value returned so far, -1 when none was
Highest(seq) ==
  IF seq = <<>> THEN -1
  ELSE CHOOSE v \in {seq[i] : i \in DOMAIN seq} : \A i \in DOMAIN seq : seq[i] <= v

\* the calls of _get_transaction_id made so far
TransactionCalls ==
  Len(issued) + Cardinality({w \in Workers : wk[w].pc \in {"tx_acquire", "tx_read",
                                                           "tx_increment", "tx_release"}})

\* a handler is entered and calls _get_transaction_id()
GetTransactionId(w, limit) ==
  /\ Free(w)
  /\ TransactionCalls < limit
  /\ Step(w, [IdleWorker EXCEPT !.pc = "tx_acquire", !.floor = Highest(issued)])
  /\ UNCHANGED <<semaphore, store, transaction_id, history>>

\* a variant: the semaphore is not waited for
SemAcquire_NoWait(w) ==
  /\ wk[w].pc = "tx_acquire"
  /\ transaction_sem' = transaction_sem - 1
  /\ Step(w, [wk[w] EXCEPT !.pc = "tx_read"])
  /\ UNCHANGED <<issued, store, transaction_id, history>>

\* transaction_sem.acquire(): waits until the value is positive, and lowers it
SemAcquire(w) ==
  /\ wk[w].pc = "tx_acquire"
  /\ transaction_sem > 0
  /\ transaction_sem' = transaction_sem - 1
  /\ Step(w, [wk[w] EXCEPT !.pc = "tx_read"])
  /\ UNCHANGED <<issued, store, transaction_id, history>>

\* transaction = transaction_id
ReadTransactionId(w) ==
  /\ wk[w].pc = "tx_read"
  /\ Step(w, [wk[w] EXCEPT !.transaction = transaction_id, !.pc = "tx_increment"])
  /\ UNCHANGED <<semaphore, store, transaction_id, history>>

\* transaction_id += 1
IncrementTransactionId(w) ==
  /\ wk[w].pc = "tx_increment"
  /\ transaction_id' = transaction_id + 1
  /\ Step(w, [wk[w] EXCEPT !.pc = "tx_release"])
  /\ UNCHANGED <<semaphore, store, history>>

\* transaction_sem.release(); return transaction
SemRelease(w) ==
  /\ wk[w].pc = "tx_release"
  /\ transaction_sem' = transaction_sem + 1
  /\ issued' = Append(issued, wk[w].transaction)
  /\ Step(w, [IdleWorker EXCEPT !.pc = "done", !.transaction = wk[w].transaction])
  /\ UNCHANGED <<store, transaction_id, history>>

(***************************************************************************)
(* Specifications.  Spec: the handler threads run concurrently, any        *)
(* interleaving of their redis calls.  SpecSeq: one call at a time.        *)
(* SpecScrub: the startup of the module on what a prior instance left.     *)
(* SpecTx: concurrent calls of _get_transaction_id.                        *)
(***************************************************************************)
Handlers == Enqueuers \cup Dequeuers

Next ==
  \E w \in Workers :
    \/ \E msg \in Payloads : QueueRequestBegin(w, msg, MaxCalls)
    \/ \E msg \in Payloads : QueueReplyBegin(w, msg, MaxCalls)
    \/ \E o \in Operations, reset \in BOOLEAN : DequeueBegin(w, o, reset, MaxCalls)
    \/ \E h \in Handlers : RejectedCall(w, h, MaxCalls)
    \/ QueueRequestGetReply(w)
    \/ QueueRequestDelReply(w)
    \/ EnqueueRead(w)
    \/ EnqueueSet(w)
    \/ EnqueueExpire(w)
    \/ UpdateStatsCount(w)
    \/ UpdateStatsBytes(w)
    \/ DequeueReadBusy(w)
    \/ DequeueSetBusy(w)
    \/ DequeueReset(w)
    \/ DequeueClearPickup(w)
    \/ DequeueExpire(w)
    \/ DequeueGetFastPolls(w)
    \/ DequeueSetFastPolls(w)
    \/ DequeueFirstRead(w)
    \/ DequeuePoll(w)
    \/ DequeueDelMessage(w)
    \/ DequeueSetPickup(w)
    \/ DequeueFinally(w)

Spec == Init /\ [][Next]_vars

NextSeq ==
  \/ \E msg \in Payloads : QueueRequestBegin(1, msg, MaxSeqCalls)
  \/ \E msg \in Payloads : QueueReplyBegin(1, msg, MaxSeqCalls)
  \/ \E o \in Operations, reset \in BOOLEAN : DequeueBegin(1, o, reset, MaxSeqCalls)
  \/ \E h \in Handlers : RejectedCall(1, h, MaxSeqCalls)
  \/ QueueRequestGetReply(1)
  \/ QueueRequestDelReply(1)
  \/ EnqueueRead(1)
  \/ EnqueueSet(1)
  \/ EnqueueExpire(1)
  \/ UpdateStatsCount(1)
  \/ UpdateStatsBytes(1)
  \/ DequeueReadBusy(1)
  \/ DequeueSetBusy(1)
  \/ DequeueReset(1)
  \/ DequeueClearPickup(1)
  \/ DequeueExpire(1)
  \/ DequeueGetFastPolls(1)
  \/ DequeueSetFastPolls(1)
  \/ DequeueFirstRead(1)
  \/ DequeuePoll(1)
  \/ DequeueDelMessage(1)
  \/ DequeueSetPickup(1)
  \/ DequeueFinally(1)

SpecSeq == Init /\ [][NextSeq]_vars

NextScrub ==
  \E w \in Workers :
    \/ ScrubKeys(w)
    \/ ScrubDelKey(w)

SpecScrub == InitScrub /\ [][NextScrub]_vars

NextTx ==
  \E w \in Workers :
    \/ GetTransactionId(w, MaxTxCalls)
    \/ SemAcquire(w)
    \/ ReadTransactionId(w)
    \/ IncrementTransactionId(w)
    \/ SemRelease(w)

SpecTx == Init /\ [][NextTx]_vars

(***************************************************************************)
(* Properties.                                                             *)
(***************************************************************************)
\* thread w takes the step
Stepped(w) == wk'[w] # wk[w]

\* the threads that hold the reader interlock of a slot: they set dequeue_busy
\* and have not returned yet
ValidReaders(o) == {w \in Workers : wk[w].operation = o /\ wk[w].acquired}

Busy(o) == HGet(redis_db[o], "dequeue_busy")
Message(o) == HGet(redis_db[o], "message")

\* C1: single waiter.  On every slot at most one dequeue call at a time is a
\* valid reader: two calls never hold the reader interlock of one slot together.
C1_SingleWaiter == \A o \in Operations : Cardinality(ValidReaders(o)) <= 1

\* C2: interlock release.  A dequeue call that set dequeue_busy to busy leaves
\* dequeue_busy = idle in the slot at the step it returns with, whether it
\* consumed a message, timed out or raised.
C2_InterlockRelease ==
  [][\A w \in Workers :
       (wk[w].acquired /\ wk'[w].pc = "done")
         => HGet(redis_db'[wk[w].operation], "dequeue_busy") = Some(DEQUEUE_IDLE_STATUS)]_vars

\* C2 happens: a dequeue call has returned 500 after its delete of the message
\* failed, and the slot's dequeue_busy is idle.
C2_Witness ==
  \E w \in Workers :
    /\ wk[w].pc = "done" /\ wk[w].handler \in Dequeuers /\ wk[w].operation # ""
    /\ wk[w].status = HTTP_SYS_ERR
    /\ Busy(wk[w].operation) = Some(DEQUEUE_IDLE_STATUS)

\* C3: at most one pending message.  The message field of a slot is absent or
\* holds exactly the payload of the latest enqueue that passed its test of the
\* slot and wrote.
C3_AtMostOnePending ==
  \A o \in Operations : Message(o) = None \/ Message(o) = lastEnqueued[o]

\* C3 happens: a slot holds a message and two enqueues on it have been counted.
C3_Witness ==
  \E o \in Operations : Message(o) # None /\ stats["count:" \o o] >= 2

\* the step with which a dequeue call takes a payload it then returns: its
\* delete of the message read, or its read of an empty message
TakesPayload(w) ==
  \/ wk[w].pc = "deq_del_message" /\ wk'[w].pc = "deq_set_pickup"
  \/ /\ wk[w].pc \in {"deq_first_read", "deq_poll"}
     /\ wk'[w].pc = "deq_finally" /\ wk'[w].message # None

\* C4 as stated: every payload written to a slot by an enqueue is the payload
\* of the next dequeue on the slot that takes a payload.
C4_NextDequeueReturnsIt ==
  [][\A w \in Workers :
       TakesPayload(w) => \A p \in awaiting[wk[w].operation] : p = Val(wk'[w].message)]_vars

\* the payload of a padded body
Unpadded(body) == SubSeq(body, 1, Len(body) - PAD_LENGTH)

\* C4 amended: a dequeue that returns a payload returns, before padding,
\* exactly the payload of the latest enqueue written to the slot when the
\* dequeue read it.
C4_RoundTrip ==
  [][\A w \in Workers :
       (wk[w].pc = "deq_finally" /\ wk'[w].pc = "done" /\ wk'[w].status = HTTP_OK)
         => /\ wk[w].source # None
            /\ Len(wk'[w].body) >= PAD_LENGTH
            /\ Unpadded(wk'[w].body) = Val(wk[w].source)]_vars

\* C4 happens: a dequeue has returned a payload that is not empty.
C4_Witness ==
  \E w \in Workers :
    /\ wk[w].pc = "done" /\ wk[w].handler \in Dequeuers
    /\ wk[w].status = HTTP_OK /\ Len(wk[w].body) > PAD_LENGTH

\* C5: slot occupied.  An enqueue that finds the message field present returns
\* 500 at once and changes no slot and no counter; a queue_reply makes no
\* write before its test of the slot, so the reply slot still holds the
\* earlier payload.
C5_SlotOccupied ==
  [][\A w \in Workers :
       /\ (wk[w].pc = "enq_read" /\ Stepped(w) /\ HGet(Slot(w), "message") # None)
            => /\ wk'[w].pc = "done" /\ wk'[w].status = HTTP_SYS_ERR
               /\ redis_db' = redis_db /\ stats' = stats
       /\ (Stepped(w) /\ wk'[w].handler = "queue_reply" /\ wk[w].pc \in {"idle", "done", "enq_read"})
            => redis_db' = redis_db /\ stats' = stats]_vars

\* C5 happens: a queue_reply has returned 500 and the reply slot holds a message.
C5_Witness ==
  \E w \in Workers :
    /\ wk[w].pc = "done" /\ wk[w].handler = "queue_reply" /\ wk[w].operation = REPLY
    /\ wk[w].status = HTTP_SYS_ERR
    /\ Message(REPLY) # None

\* C6: stranded-reply cleanup.  When a queue_request writes its payload the
\* reply slot of the channel holds no message, and when it has returned 200
\* (no other call running) the reply slot holds no message and the request
\* slot holds the payload posted.
C6_StrandedReplyCleared ==
  \A w \in Workers :
    wk[w].handler = "queue_request"
      => /\ wk[w].pc = "enq_set" => Message(REPLY) = None
         /\ (wk[w].pc = "done" /\ wk[w].status = HTTP_OK)
              => Message(REPLY) = None /\ Message(REQUEST) = Some(wk[w].msg)

\* C7: a redundant reader leaves the slot unchanged.  A dequeue call that
\* reads dequeue_busy = busy goes to its return without a read of the message,
\* returns 429 with an empty body, and neither of its steps writes a field of
\* any slot or a counter: dequeue_busy stays busy, the message stays (also
\* under reset_first), pickup_time and reply_fast_polls_left stay.
C7_RedundantReader ==
  [][\A w \in Workers :
       /\ (wk[w].pc = "deq_read_busy" /\ Stepped(w)
             /\ Busy(wk[w].operation) = Some(DEQUEUE_BUSY_STATUS))
            => /\ wk'[w].pc = "deq_finally" /\ ~wk'[w].valid_reader
               /\ wk'[w].message = None /\ wk'[w].polls = 0
               /\ redis_db' = redis_db /\ stats' = stats
       /\ (wk[w].pc = "deq_finally" /\ Stepped(w) /\ ~wk[w].valid_reader)
            => /\ wk'[w].pc = "done" /\ wk'[w].status = HTTP_TOO_MANY
               /\ wk'[w].body = <<>>
               /\ redis_db' = redis_db /\ stats' = stats]_vars

\* C7 happens: a dequeue has returned 429, and the slot still has its message
\* and dequeue_busy = busy.
C7_Witness ==
  \E w \in Workers :
    /\ wk[w].pc = "done" /\ wk[w].status = HTTP_TOO_MANY
    /\ Busy(wk[w].operation) = Some(DEQUEUE_BUSY_STATUS)
    /\ Message(wk[w].operation) # None

PollBound(secs) == 1 + ((DEQUEUE_TIMEOUT_SECS + secs - 1) \div secs)

Quiescent == \A w \in Workers : wk[w].handler \in Enqueuers => wk[w].pc = "done"

\* C10: statistics counters.  No counter of the day record ever decreases;
\* whenever no enqueue is in progress, count:<d> is the number of enqueues to
\* d answered 200 and <d> is the sum of the lengths of their payloads; a step
\* of a dequeue, and the step with which an enqueue returns 500, change no
\* counter.
C10_Statistics ==
  [][/\ \A f \in StatFields : stats'[f] >= stats[f]
     /\ Quiescent' => stats' = succeeded'
     /\ \A w \in Workers :
          (Stepped(w) /\ (wk'[w].handler \in Dequeuers \/ wk'[w].status = HTTP_SYS_ERR))
            => stats' = stats]_vars

\* C10 happens: no enqueue is in progress, one has just returned 500, and
\* enqueues on its slot have been counted, with more bytes than calls.
C10_Witness ==
  \E w \in Workers :
    /\ Quiescent
    /\ wk[w].pc = "done" /\ wk[w].handler \in Enqueuers /\ wk[w].operation # ""
    /\ wk[w].status = HTTP_SYS_ERR
    /\ stats[wk[w].operation] > stats["count:" \o wk[w].operation]

\* the startup scrub is running
Scrubbing == \E w \in Workers : wk[w].pc \in {"scrub_keys", "scrub_del"}

\* C11: startup scrub.  Once the scrub has completed no request or reply key
\* exists (so no slot has a message or a dequeue_busy flag), and the day
\* record of the statistics has the fields and values the prior instance left.
C11_StartupScrub ==
  ~Scrubbing
    => /\ \A o \in Operations :
            /\ ~Exists(redis_db[o]) /\ redis_db[o].ttl = -2
            /\ Message(o) = None /\ Busy(o) = None
       /\ stats = succeeded

\* C11 happens: the scrub has completed, the prior instance had left a message
\* in both slots, and it had counted enqueues.
C11_Witness ==
  /\ ~Scrubbing
  /\ \A o \in Operations : lastEnqueued[o] # None /\ stats["count:" \o o] > 0

\* the step with which a call returns to its caller
Returns(w) == Stepped(w) /\ wk'[w].pc = "done"

\* C12: TTL refresh.  Every enqueue that returns 200 and every dequeue that
\* returns as a valid reader (200 or 408) has set the TTL of its slot key to
\* EXPIRE_SECS during the call, and when it returns the key exists and has
\* that TTL (the clock is not modelled: ttl is the value last set), so it is
\* never left without one.
C12_TTLRefresh ==
  [][\A w \in Workers :
       /\ (wk[w].pc \in {"enq_expire", "deq_expire"} /\ Stepped(w) /\ wk'[w].refreshed)
            => redis_db'[wk[w].operation].ttl = EXPIRE_SECS
       /\ (Returns(w) /\ wk[w].handler \in Handlers /\ wk[w].operation # ""
             /\ wk'[w].status \in {HTTP_OK, HTTP_TIMEOUT})
            => /\ wk[w].refreshed
               /\ Exists(redis_db'[wk[w].operation])
               /\ redis_db'[wk[w].operation].ttl = EXPIRE_SECS]_vars

\* C12 happens: a dequeue has returned 408 and an enqueue 200, and the slot
\* of each has its TTL.
C12_Witness ==
  \E w, v \in Workers :
    /\ wk[w].pc = "done" /\ wk[w].handler \in Dequeuers /\ wk[w].status = HTTP_TIMEOUT
    /\ wk[v].pc = "done" /\ wk[v].handler \in Enqueuers /\ wk[v].status = HTTP_OK
    /\ redis_db[wk[w].operation].ttl = EXPIRE_SECS
    /\ redis_db[wk[v].operation].ttl = EXPIRE_SECS

\* the seconds a dequeue call has slept: a sleep of the polling interval comes
\* before every read of the message but the first
Slept(w) == IF wk[w].polls = 0 THEN 0 ELSE (wk[w].polls - 1) * wk[w].dequeue_polling_secs

\* C13: blocking bound.  Within one dequeue call the sleeps of the polling
\* loop never add up to more than DEQUEUE_TIMEOUT_SECS.
C13_BlockingBound == \A w \in Workers : Slept(w) <= DEQUEUE_TIMEOUT_SECS

\* C14: consume empties the slot.  When a dequeue call returns a payload
\* (status 200), the empty one included, and no other call runs, the message
\* field of the slot is absent, pickup_time is the current time and
\* reply_fast_polls_left is ALLOWED_FAST_DEQUEUE_POLLS.
C14_ConsumeEmptiesSlot ==
  [][\A w \in Workers :
       (wk[w].handler \in Dequeuers /\ Returns(w) /\ wk'[w].status = HTTP_OK)
         => LET h == redis_db'[wk[w].operation]
            IN  /\ HGet(h, "message") = None
                /\ HGet(h, "pickup_time") = Some(Asctime)
                /\ HGet(h, "reply_fast_polls_left") = Some(IntToBytes(ALLOWED_FAST_DEQUEUE_POLLS))]_vars

\* C15: permissive stranded-reply sweep.  The delete of the reply message in
\* queue_request does not fail: the call goes on to its enqueue, also when
\* another call has removed the reply message since queue_request read it.
C15_PermissiveSweep ==
  [][\A w \in Workers :
       (wk[w].pc = "qr_del_reply" /\ Stepped(w))
         => wk'[w].pc = "enq_read" /\ wk'[w].exc = ""]_vars

\* C16: stale-message sweep on reset.  The sweep of a valid reader called
\* with reset_first does not fail and leaves the slot without a message,
\* whether or not there was one; every message such a reader reads, and so
\* every payload it returns, was written to the slot after its sweep, and so
\* after it set the interlock.
C16_ResetSweep ==
  [][\A w \in Workers :
       /\ (wk[w].pc = "deq_reset" /\ Stepped(w))
            => /\ wk'[w].pc = "deq_clear_pickup" /\ wk'[w].exc = ""
               /\ HGet(redis_db'[wk[w].operation], "message") = None
               /\ wk'[w].swept_at >= wk[w].acquired_at
       /\ (wk[w].reset_first /\ wk[w].pc \in {"deq_first_read", "deq_poll"}
             /\ Stepped(w) /\ wk'[w].message # None)
            => wk'[w].read_write > wk[w].swept_at
       /\ (wk[w].reset_first /\ wk[w].handler \in Dequeuers
             /\ Returns(w) /\ wk'[w].status = HTTP_OK)
            => /\ wk[w].swept
               /\ wk[w].read_write > wk[w].swept_at
               /\ wk[w].read_write > wk[w].acquired_at]_vars

\* C16 happens: a reader called with reset_first made its sweep when a message
\* had been written to the slot, then read a later message, and is about to
\* return it.
C16_Witness ==
  \E w \in Workers :
    /\ wk[w].pc = "deq_finally" /\ wk[w].reset_first /\ wk[w].exc = ""
    /\ wk[w].swept_at >= 1 /\ wk[w].message # None

\* C17: no silent overwrite by concurrent producers.  No two enqueues on a
\* slot have both returned 200 when the write of the second replaced the
\* message of the first: their writes follow each other with the message
\* still in the slot, so the calls overlap and no dequeue consumed in between.
C17_NoSilentOverwrite ==
  \A o \in Operations :
    \A a, b \in acked[o] : ~(b[1] = a[1] + 1 /\ b[2])

\* C18: at-most-once delivery.  A message is returned with status 200 by at
\* most one dequeue call, and the message a dequeue call deletes is the one
\* it read, not a later one.
C18_AtMostOnce ==
  [][\A w \in Workers :
       /\ (wk[w].handler \in Dequeuers /\ Returns(w) /\ wk'[w].status = HTTP_OK)
            => wk[w].read_write \notin delivered[wk[w].operation]
       /\ (wk[w].pc = "deq_del_message" /\ wk'[w].pc = "deq_set_pickup")
            => written[wk[w].operation] = wk[w].read_write]_vars

\* C19 as stated: a queue_request that returns 500 has changed neither slot
\* of the channel; it has not deleted the reply message.
C19_FailedRequestChangesNothing ==
  [][\A w \in Workers :
       (wk[w].handler = "queue_request" /\ Returns(w) /\ wk'[w].status = HTTP_SYS_ERR)
         => ~wk[w].swept]_vars

\* C19 amended: a queue_request that returns 500 has not written the request
\* slot or a counter, and the step it returns with changes nothing; of the
\* reply slot it has changed at most the message field, which it has deleted
\* when it read a reply that was not empty.
C19_FailedRequestKeepsRequest ==
  [][\A w \in Workers :
       /\ (wk'[w].handler = "queue_request" /\ Returns(w) /\ wk'[w].status = HTTP_SYS_ERR)
            => /\ redis_db' = redis_db /\ stats' = stats
               /\ wk[w].pc \in {"idle", "done", "qr_del_reply", "enq_read"}
       /\ (wk[w].handler = "queue_request" /\ Stepped(w)
             /\ wk[w].pc \in {"qr_get_reply", "qr_del_reply", "enq_read"})
            => /\ redis_db'[REQUEST] = redis_db[REQUEST] /\ stats' = stats
               /\ \/ redis_db'[REPLY] = redis_db[REPLY]
                  \/ /\ wk[w].pc = "qr_del_reply" /\ wk'[w].swept
                     /\ redis_db'[REPLY] = HDel(redis_db[REPLY], "message")]_vars

\* C19 happens: a queue_request has returned 500 on an occupied request slot
\* after it deleted the reply message.
C19_Witness ==
  \E w \in Workers :
    /\ wk[w].pc = "done" /\ wk[w].handler = "queue_request" /\ wk[w].operation = REQUEST
    /\ wk[w].status = HTTP_SYS_ERR
    /\ Message(REQUEST) # None /\ Message(REPLY) = None /\ lastEnqueued[REPLY] # None

\* C20: transaction ids.  No two calls of _get_transaction_id return the same
\* value, the values returned are exactly 0, 1, 2, ... with none skipped, and
\* a call returns a value above every value returned before it started.
C20_TransactionIds ==
  [][/\ \A i, j \in DOMAIN issued' : i # j => issued'[i] # issued'[j]
     /\ {issued'[i] : i \in DOMAIN issued'} = 0 .. Len(issued') - 1
     /\ \A w \in Workers :
          (wk[w].pc = "tx_release" /\ Stepped(w)) => wk[w].transaction > wk[w].floor]_vars

\* C20 happens: values have been returned, and a call waits for the semaphore
\* that another call holds.
C20_Witness ==
  \E w, v \in Workers :
    /\ wk[w].pc = "tx_acquire" /\ wk[v].pc = "tx_increment"
    /\ transaction_sem = 0 /\ Len(issued) >= 2

====
